---- MODULE Spec2Model ----
(***************************************************************************)
(* A model of src/addFrontmatter.ts: the post-export script that reads the *)
(* YAML frontmatter of every exported HTML page, renders it as a           *)
(* properties table after the page's <h1>, and overrides the page title.   *)
(*                                                                         *)
(* Strings are sequences of one-character strings, so that the regular     *)
(* expressions, template literals and path functions of the source can be  *)
(* computed character by character.  A JavaScript value is a record        *)
(* [t |-> type tag, v |-> payload].                                        *)
(***************************************************************************)
EXTENDS Integers, Sequences, FiniteSets, TLC

(***************************************************************************)
(* Bounds of the model.                                                    *)
(***************************************************************************)
MaxFiles == 2
MaxRuns == 2
MaxEntries == 2
MaxItems == 2

(***************************************************************************)
(* Strings.                                                                *)
(***************************************************************************)
StartsWith(s, p) == Len(s) >= Len(p) /\ SubSeq(s, 1, Len(p)) = p

EndsWith(s, p) == Len(s) >= Len(p) /\ SubSeq(s, Len(s) - Len(p) + 1, Len(s)) = p

Digits == <<"0", "1", "2", "3", "4", "5", "6", "7", "8", "9">>

IsDigit(c) == \E i \in 1..10 : Digits[i] = c

DigitVal(c) == (CHOOSE i \in 1..10 : Digits[i] = c) - 1

RECURSIVE NatToStr(_)
NatToStr(n) == IF n < 10 THEN <<Digits[n + 1]>>
               ELSE NatToStr(n \div 10) \o <<Digits[(n % 10) + 1]>>

\* a <= b for two canonical decimal numerals (no leading zero), compared
\* digit by digit so that values beyond the machine integers stay exact
RECURSIVE DigitsLeq(_, _)
DigitsLeq(a, b) ==
    IF a = <<>> THEN TRUE
    ELSE IF DigitVal(Head(a)) # DigitVal(Head(b)) THEN DigitVal(Head(a)) < DigitVal(Head(b))
    ELSE DigitsLeq(Tail(a), Tail(b))

NumeralLeq(a, b) == Len(a) < Len(b) \/ (Len(a) = Len(b) /\ DigitsLeq(a, b))

\* 2^32 - 2, the largest array index
MaxArrayIndex == <<"4", "2", "9", "4", "9", "6", "7", "2", "9", "4">>

(***************************************************************************)
(* JavaScript values and String(val).                                      *)
(***************************************************************************)
JStr(s) == [t |-> "str", v |-> s]
JNum(n) == [t |-> "num", v |-> n]
JBool(b) == [t |-> "bool", v |-> b]
JNull == [t |-> "null", v |-> 0]
JUndef == [t |-> "undef", v |-> 0]
JArr(items) == [t |-> "arr", v |-> items]
\* an object with the own properties pairs, a sequence of <<key, value>> in
\* property order; its prototype is Object.prototype
JObject(pairs) == [t |-> "obj", v |-> pairs]
JObj == JObject(<<>>)
\* a function object found on a prototype; v is the text String gives for
\* it, the fixed parts around the name kept as one element each
JFn(name) == [t |-> "fn", v |-> <<"function ">> \o name \o <<"() { [native code] }">>]

ObjectObject == <<"[", "o", "b", "j", "e", "c", "t", " ", "O", "b", "j", "e", "c", "t", "]">>

NameToString == <<"t", "o", "S", "t", "r", "i", "n", "g">>

HasOwn(pairs, name) == \E n \in 1..Len(pairs) : pairs[n][1] = name

GetOwn(pairs, name) == pairs[CHOOSE n \in 1..Len(pairs) : pairs[n][1] = name][2]

\* what a conversion to a string gives in place of a string when it throws
TypeError == <<"TypeError: Cannot convert object to primitive value">>

\* String(val), and the conversion an assignment to href, textContent or
\* title makes: the string, or TypeError when the conversion throws.  An
\* object converts through the toString it finds: the one of
\* Object.prototype gives "[object Object]"; an own property toString, which
\* in a value of YAML or JSON is never a function, makes the conversion
\* throw.  An array converts by joining its items with ",", null and
\* undefined items giving the empty string, and throws when an item does.
RECURSIVE String(_)
RECURSIVE JoinItems(_)
JoinItems(items) ==
    IF items = <<>> THEN <<>>
    ELSE LET h == Head(items)
             hs == IF h.t \in {"null", "undef"} THEN <<>> ELSE String(h)
             rest == IF Len(items) = 1 THEN <<>> ELSE JoinItems(Tail(items))
         IN IF hs = TypeError \/ rest = TypeError THEN TypeError
            ELSE IF Len(items) = 1 THEN hs
            ELSE hs \o <<",">> \o rest

String(val) ==
    CASE val.t = "str" -> val.v
      [] val.t = "num" -> IF val.v < 0 THEN <<"-">> \o NatToStr(0 - val.v) ELSE NatToStr(val.v)
      [] val.t = "bool" -> IF val.v THEN <<"t", "r", "u", "e">> ELSE <<"f", "a", "l", "s", "e">>
      [] val.t = "null" -> <<"n", "u", "l", "l">>
      [] val.t = "undef" -> <<"u", "n", "d", "e", "f", "i", "n", "e", "d">>
      [] val.t = "arr" -> JoinItems(val.v)
      [] val.t = "obj" -> IF HasOwn(val.v, NameToString) THEN TypeError ELSE ObjectObject
      [] val.t = "fn" -> val.v

\* the condition of `if (target)`
Truthy(val) ==
    CASE val.t = "str" -> val.v # <<>>
      [] val.t = "num" -> val.v # 0
      [] val.t = "bool" -> val.v
      [] val.t \in {"null", "undef"} -> FALSE
      [] OTHER -> TRUE

(***************************************************************************)
(* Property order of an ordinary JavaScript object: the keys that are      *)
(* array indices (canonical decimal numerals) in ascending numeric order,  *)
(* then the other string keys in the order they were created.  It is the   *)
(* order of Object.entries and of for-in.  pairs is a sequence of          *)
(* <<key, value>> in creation order, with distinct keys.                   *)
(***************************************************************************)
IsArrayIndex(k) ==
    /\ Len(k) >= 1
    /\ \A i \in 1..Len(k) : IsDigit(k[i])
    /\ (Len(k) > 1 => k[1] # "0")
    /\ NumeralLeq(k, MaxArrayIndex)

RECURSIVE SortByIndex(_, _)
SortByIndex(pairs, idx) ==
    IF idx = {} THEN <<>>
    ELSE LET m == CHOOSE i \in idx :
                    \A j \in idx : NumeralLeq(pairs[i][1], pairs[j][1])
         IN <<pairs[m]>> \o SortByIndex(pairs, idx \ {m})

NotArrayIndex(pair) == ~IsArrayIndex(pair[1])

OwnProperties(pairs) ==
    SortByIndex(pairs, {n \in 1..Len(pairs) : IsArrayIndex(pairs[n][1])})
        \o SelectSeq(pairs, NotArrayIndex)

HasDuplicateKeys(pairs) ==
    \E i, j \in 1..Len(pairs) : i # j /\ pairs[i][1] = pairs[j][1]

(***************************************************************************)
(* Paths.                                                                  *)
(***************************************************************************)
LastSlash(p) ==
    IF \E i \in 1..Len(p) : p[i] = "/"
    THEN CHOOSE i \in 1..Len(p) : p[i] = "/" /\ \A j \in (i + 1)..Len(p) : p[j] # "/"
    ELSE 0

\* path.basename(p, ext) of Node.js, for a path without a trailing slash:
\* the last segment, less the suffix ext unless the segment is ext itself;
\* a path that is ext and nothing else gives the empty string
basename(p, ext) ==
    LET seg == SubSeq(p, LastSlash(p) + 1, Len(p))
    IN IF ext # <<>> /\ p = ext THEN <<>>
       ELSE IF ext # <<>> /\ EndsWith(seg, ext) /\ Len(seg) > Len(ext)
            THEN SubSeq(seg, 1, Len(seg) - Len(ext))
            ELSE seg

\* the segments of a path between its slashes, empty ones included
RECURSIVE Split(_)
Split(p) ==
    IF \E n \in 1..Len(p) : p[n] = "/"
    THEN LET n == CHOOSE n \in 1..Len(p) : p[n] = "/" /\ \A j \in 1..(n - 1) : p[j] # "/"
         IN <<SubSeq(p, 1, n - 1)>> \o Split(SubSeq(p, n + 1, Len(p)))
    ELSE <<p>>

RECURSIVE JoinSegments(_)
JoinSegments(segs) ==
    IF segs = <<>> THEN <<>>
    ELSE IF Len(segs) = 1 THEN Head(segs)
    ELSE Head(segs) \o <<"/">> \o JoinSegments(Tail(segs))

\* normalizeString of Node.js: empty and "." segments are dropped, ".."
\* takes back the segment before it, and stays only above the start of a
\* relative path
RECURSIVE NormalizeSegments(_, _, _)
NormalizeSegments(segs, acc, allowAboveRoot) ==
    IF segs = <<>> THEN acc
    ELSE LET seg == Head(segs)
             next ==
                 IF seg = <<>> \/ seg = <<".">> THEN acc
                 ELSE IF seg = <<".", ".">>
                 THEN IF acc # <<>> /\ acc[Len(acc)] # <<".", ".">>
                      THEN SubSeq(acc, 1, Len(acc) - 1)
                      ELSE IF allowAboveRoot THEN Append(acc, seg) ELSE acc
                 ELSE Append(acc, seg)
         IN NormalizeSegments(Tail(segs), next, allowAboveRoot)

\* path.normalize(p)
normalize(p) ==
    IF p = <<>> THEN <<".">>
    ELSE LET isAbsolute == p[1] = "/"
             trailingSeparator == p[Len(p)] = "/"
             body == JoinSegments(NormalizeSegments(Split(p), <<>>, ~isAbsolute))
         IN IF body = <<>>
            THEN (IF isAbsolute THEN <<"/">>
                  ELSE IF trailingSeparator THEN <<".", "/">> ELSE <<".">>)
            ELSE (IF isAbsolute THEN <<"/">> ELSE <<>>) \o body
                     \o (IF trailingSeparator THEN <<"/">> ELSE <<>>)

\* path.join(dir, file)
join(dir, file) ==
    normalize(IF dir = <<>> THEN file
              ELSE IF file = <<>> THEN dir
              ELSE dir \o <<"/">> \o file)

\* the working directory of the process
Cwd == <<"/", "w">>

\* path.resolve(folder, source): the arguments are taken from the right
\* until the path is absolute, the working directory comes last, and the
\* result is normalised without a trailing slash
resolve(folder, source) ==
    LET fromSource == source
        fromFolder ==
            IF fromSource # <<>> /\ fromSource[1] = "/" THEN fromSource
            ELSE IF folder = <<>> THEN fromSource
            ELSE folder \o <<"/">> \o fromSource
        fromCwd ==
            IF fromFolder # <<>> /\ fromFolder[1] = "/" THEN fromFolder
            ELSE Cwd \o <<"/">> \o fromFolder
    IN <<"/">> \o JoinSegments(NormalizeSegments(Split(fromCwd), <<>>, FALSE))

(***************************************************************************)
(* String.prototype.normalize(): Unicode normalization form C.  The        *)
(* characters outside ASCII are written by their code points.  The         *)
(* characters of the model are those of ASCII, the combining acute accent, *)
(* the angstrom, ohm and kelvin signs, and the characters these compose    *)
(* to.  On the strings over these characters form C is computed in full:   *)
(* a sign is replaced by the letter it stands for, and an accent is        *)
(* composed with the character before it whenever Unicode has the          *)
(* precomposed character (Compositions lists every such pair); an accent   *)
(* that finds none stays, and so blocks the accents after it.              *)
(***************************************************************************)
CombiningAcute == "U+0301"

\* <<character, the character it gives with a combining acute accent>>
Compositions ==
    { <<"A", "U+00C1">>, <<"C", "U+0106">>, <<"E", "U+00C9">>, <<"G", "U+01F4">>,
      <<"I", "U+00CD">>, <<"K", "U+1E30">>, <<"L", "U+0139">>, <<"M", "U+1E3E">>,
      <<"N", "U+0143">>, <<"O", "U+00D3">>, <<"P", "U+1E54">>, <<"R", "U+0154">>,
      <<"S", "U+015A">>, <<"U", "U+00DA">>, <<"W", "U+1E82">>, <<"Y", "U+00DD">>,
      <<"Z", "U+0179">>, <<"a", "U+00E1">>, <<"c", "U+0107">>, <<"e", "U+00E9">>,
      <<"g", "U+01F5">>, <<"i", "U+00ED">>, <<"k", "U+1E31">>, <<"l", "U+013A">>,
      <<"m", "U+1E3F">>, <<"n", "U+0144">>, <<"o", "U+00F3">>, <<"p", "U+1E55">>,
      <<"r", "U+0155">>, <<"s", "U+015B">>, <<"u", "U+00FA">>, <<"w", "U+1E83">>,
      <<"y", "U+00FD">>, <<"z", "U+017A">>, <<"U+00C5", "U+01FA">>, <<"U+03A9", "U+038F">> }

\* <<character, what it is replaced by>>: the angstrom, ohm and kelvin signs
Singletons ==
    { <<"U+212B", "U+00C5">>, <<"U+2126", "U+03A9">>, <<"U+212A", "K">> }

RECURSIVE ComposeFrom(_, _)
ComposeFrom(done, rest) ==
    IF rest = <<>> THEN done
    ELSE LET c == IF \E p \in Singletons : p[1] = Head(rest)
                  THEN (CHOOSE p \in Singletons : p[1] = Head(rest))[2]
                  ELSE Head(rest)
         IN IF /\ c = CombiningAcute
               /\ done # <<>>
               /\ \E p \in Compositions : p[1] = done[Len(done)]
            THEN ComposeFrom([done EXCEPT ![Len(done)] =
                                 (CHOOSE p \in Compositions : p[1] = done[Len(done)])[2]],
                             Tail(rest))
            ELSE ComposeFrom(Append(done, c), Tail(rest))

normalizeNFC(str) == ComposeFrom(<<>>, str)

DotMd == <<".", "m", "d">>
DotHtml == <<".", "h", "t", "m", "l">>

(***************************************************************************)
(* getLinkTargets: the map from source base names to target URLs.  The map *)
(* is an ordinary object: own is the function of its own properties and    *)
(* proto is its prototype: Object.prototype as created, or, once an        *)
(* assignment to __proto__ has replaced it, null or the object or array of *)
(* metadata.json that was assigned.  A read of a name the map does not own *)
(* goes up the prototype chain.                                            *)
(***************************************************************************)
NameProto == <<"_", "_", "p", "r", "o", "t", "o", "_", "_">>
NameConstructor == <<"c", "o", "n", "s", "t", "r", "u", "c", "t", "o", "r">>
NameLength == <<"l", "e", "n", "g", "t", "h">>

ObjectPrototype == [t |-> "Object.prototype", v |-> 0]
ArrayPrototype == [t |-> "Array.prototype", v |-> 0]

\* the methods of Object.prototype other than constructor
ObjectPrototypeMethods ==
    { <<"t", "o", "S", "t", "r", "i", "n", "g">>,
      <<"v", "a", "l", "u", "e", "O", "f">>,
      <<"h", "a", "s", "O", "w", "n", "P", "r", "o", "p", "e", "r", "t", "y">>,
      <<"i", "s", "P", "r", "o", "t", "o", "t", "y", "p", "e", "O", "f">>,
      <<"p", "r", "o", "p", "e", "r", "t", "y", "I", "s", "E", "n", "u", "m", "e", "r", "a", "b", "l", "e">>,
      <<"t", "o", "L", "o", "c", "a", "l", "e", "S", "t", "r", "i", "n", "g">>,
      <<"_", "_", "d", "e", "f", "i", "n", "e", "G", "e", "t", "t", "e", "r", "_", "_">>,
      <<"_", "_", "d", "e", "f", "i", "n", "e", "S", "e", "t", "t", "e", "r", "_", "_">>,
      <<"_", "_", "l", "o", "o", "k", "u", "p", "G", "e", "t", "t", "e", "r", "_", "_">>,
      <<"_", "_", "l", "o", "o", "k", "u", "p", "S", "e", "t", "t", "e", "r", "_", "_">> }

\* the methods of Array.prototype other than constructor
ArrayPrototypeMethods ==
    { <<"a", "t">>,
      <<"c", "o", "n", "c", "a", "t">>,
      <<"c", "o", "p", "y", "W", "i", "t", "h", "i", "n">>,
      <<"e", "n", "t", "r", "i", "e", "s">>,
      <<"e", "v", "e", "r", "y">>,
      <<"f", "i", "l", "l">>,
      <<"f", "i", "l", "t", "e", "r">>,
      <<"f", "i", "n", "d">>,
      <<"f", "i", "n", "d", "I", "n", "d", "e", "x">>,
      <<"f", "i", "n", "d", "L", "a", "s", "t">>,
      <<"f", "i", "n", "d", "L", "a", "s", "t", "I", "n", "d", "e", "x">>,
      <<"f", "l", "a", "t">>,
      <<"f", "l", "a", "t", "M", "a", "p">>,
      <<"f", "o", "r", "E", "a", "c", "h">>,
      <<"i", "n", "c", "l", "u", "d", "e", "s">>,
      <<"i", "n", "d", "e", "x", "O", "f">>,
      <<"j", "o", "i", "n">>,
      <<"k", "e", "y", "s">>,
      <<"l", "a", "s", "t", "I", "n", "d", "e", "x", "O", "f">>,
      <<"m", "a", "p">>,
      <<"p", "o", "p">>,
      <<"p", "u", "s", "h">>,
      <<"r", "e", "d", "u", "c", "e">>,
      <<"r", "e", "d", "u", "c", "e", "R", "i", "g", "h", "t">>,
      <<"r", "e", "v", "e", "r", "s", "e">>,
      <<"s", "h", "i", "f", "t">>,
      <<"s", "l", "i", "c", "e">>,
      <<"s", "o", "m", "e">>,
      <<"s", "o", "r", "t">>,
      <<"s", "p", "l", "i", "c", "e">>,
      <<"t", "o", "L", "o", "c", "a", "l", "e", "S", "t", "r", "i", "n", "g">>,
      <<"t", "o", "R", "e", "v", "e", "r", "s", "e", "d">>,
      <<"t", "o", "S", "o", "r", "t", "e", "d">>,
      <<"t", "o", "S", "p", "l", "i", "c", "e", "d">>,
      <<"t", "o", "S", "t", "r", "i", "n", "g">>,
      <<"u", "n", "s", "h", "i", "f", "t">>,
      <<"v", "a", "l", "u", "e", "s">>,
      <<"w", "i", "t", "h">> }

\* name is the index of an item of an array of length len
IsItemIndex(name, len) == \E n \in 1..len : NatToStr(n - 1) = name

ItemIndex(name, len) == CHOOSE n \in 1..len : NatToStr(n - 1) = name

\* the lookup of name from the object obj up its prototype chain, for a
\* receiver whose prototype is receiverProto: an object of metadata.json
\* has Object.prototype as prototype, an array has Array.prototype, whose
\* prototype is Object.prototype, whose prototype is null.  __proto__ is an
\* accessor of Object.prototype that gives the prototype of the receiver.
RECURSIVE Get(_, _, _)
Get(obj, name, receiverProto) ==
    CASE obj.t = "null" -> JUndef
      [] obj.t = "obj" ->
            IF HasOwn(obj.v, name) THEN GetOwn(obj.v, name)
            ELSE Get(ObjectPrototype, name, receiverProto)
      [] obj.t = "arr" ->
            IF IsItemIndex(name, Len(obj.v)) THEN obj.v[ItemIndex(name, Len(obj.v))]
            ELSE IF name = NameLength THEN JNum(Len(obj.v))
            ELSE Get(ArrayPrototype, name, receiverProto)
      [] obj.t = "Array.prototype" ->
            IF name = NameConstructor THEN JFn(<<"A", "r", "r", "a", "y">>)
            ELSE IF name \in ArrayPrototypeMethods THEN JFn(name)
            ELSE IF name = NameLength THEN JNum(0)
            ELSE Get(ObjectPrototype, name, receiverProto)
      [] obj.t = "Object.prototype" ->
            IF name = NameConstructor THEN JFn(<<"O", "b", "j", "e", "c", "t">>)
            ELSE IF name \in ObjectPrototypeMethods THEN JFn(name)
            ELSE IF name = NameProto
            THEN (IF receiverProto.t = "Object.prototype" THEN JObj ELSE receiverProto)
            ELSE JUndef

\* the setter of __proto__ is reached from an object with this prototype:
\* Object.prototype is on the chain and no object before it owns a data
\* property of that name
SetterOnChain(proto) ==
    /\ proto.t # "null"
    /\ ~(proto.t = "obj" /\ HasOwn(proto.v, NameProto))

\* linkTargets[sourceBase] = value.  The setter of __proto__ replaces the
\* prototype by an object, an array or null, ignores any other value, and
\* creates no own property; every other assignment creates or updates an
\* own property.
Assign(obj, sourceBase, value) ==
    IF sourceBase \notin DOMAIN obj.own /\ sourceBase = NameProto /\ SetterOnChain(obj.proto)
    THEN [obj EXCEPT !.proto = IF value.t \in {"null", "obj", "arr"} THEN value ELSE @]
    ELSE [obj EXCEPT !.own = [k \in DOMAIN obj.own \cup {sourceBase} |->
                                 IF k = sourceBase THEN value ELSE obj.own[k]]]

RECURSIVE AssignAll(_, _, _)
AssignAll(obj, folder, pairs) ==
    IF pairs = <<>> THEN obj
    ELSE LET sourcePath == resolve(folder, Head(pairs)[1])
             sourceBase == basename(sourcePath,
                                    IF EndsWith(sourcePath, DotMd) THEN DotMd ELSE <<>>)
         IN AssignAll(Assign(obj, sourceBase, Head(pairs)[2]), folder, Tail(pairs))

EmptyObject == [own |-> [k \in {} |-> JUndef], proto |-> ObjectPrototype]

getLinkTargets(folder, metadata) ==
    AssignAll(EmptyObject, folder, OwnProperties(metadata.sourceToTarget))

\* linkTargets[name]
GetProperty(linkTargets, name) ==
    IF name \in DOMAIN linkTargets.own THEN linkTargets.own[name]
    ELSE Get(linkTargets.proto, name, linkTargets.proto)

(***************************************************************************)
(* The value renderer.  A fragment is a text node, an <a> or a <div>.      *)
(***************************************************************************)
TextNode(data) == [node |-> "text", data |-> data]

\* what createLink and createHtmlElement give when a conversion throws: no
\* fragment, the TypeError goes up to the caller
Thrown == [node |-> "TypeError"]

\* createLink(document, target, text, newWindow); a.href = target converts
\* target to a string
createLink(target, text, newWindow) ==
    IF String(target) = TypeError THEN Thrown
    ELSE [node |-> "a",
          href |-> String(target),
          text |-> text,
          target |-> IF newWindow THEN "_blank" ELSE "",
          rel |-> IF newWindow THEN "noopener noreferrer" ELSE "",
          class |-> ""]

HttpPrefix == <<"h", "t", "t", "p", ":", "/", "/">>
HttpsPrefix == <<"h", "t", "t", "p", "s", ":", "/", "/">>

\* /^https?:\/\//.test(val)
IsExternal(val) == StartsWith(val, HttpPrefix) \/ StartsWith(val, HttpsPrefix)

\* the characters the . of a regular expression refuses: line feed,
\* carriage return, and the line and paragraph separators, which are
\* written here by their code points
LineSeparator == "U+2028"
ParagraphSeparator == "U+2029"

LineTerminators == {"\n", "\r", LineSeparator, ParagraphSeparator}

\* val.match(/^\[\[(.+?)\]\]$/): the whole value is "[[", one or more
\* characters that are not line terminators, "]]"
WikiMatches(val) ==
    /\ Len(val) >= 5
    /\ StartsWith(val, <<"[", "[">>)
    /\ EndsWith(val, <<"]", "]">>)
    /\ \A i \in 3..(Len(val) - 2) : val[i] \notin LineTerminators

\* wikiMatch[1]
WikiName(val) == SubSeq(val, 3, Len(val) - 2)

TagQuery == <<"?", "q", "u", "e", "r", "y", "=", "t", "a", "g", ":">>

RECURSIVE createHtmlElement(_, _, _)
createHtmlElement(key, val, linkTargets) ==
    IF val.t = "arr"
    THEN LET elems == [n \in 1..Len(val.v) |-> createHtmlElement(key, val.v[n], linkTargets)]
         IN IF \E n \in 1..Len(elems) : elems[n].node = "TypeError" THEN Thrown
            ELSE [node |-> "div",
                  style |-> "display: flex; flex-wrap: wrap; gap: 0.5em;",
                  children |-> elems]
    ELSE IF val.t # "str"
    THEN (IF String(val) = TypeError THEN Thrown ELSE TextNode(String(val)))
    ELSE IF key = <<"t", "a", "g", "s">>
    THEN [createLink(JStr(TagQuery \o val.v), <<"#">> \o val.v, FALSE)
             EXCEPT !.class = "tag is-unresolved"]
    ELSE IF IsExternal(val.v) THEN createLink(val, val.v, TRUE)
    ELSE IF WikiMatches(val.v) /\ Truthy(GetProperty(linkTargets, WikiName(val.v)))
    THEN createLink(GetProperty(linkTargets, WikiName(val.v)), WikiName(val.v), FALSE)
    ELSE TextNode(val.v)

(***************************************************************************)
(* Pages.  A page document is a record                                     *)
(*   hasPre   whether it holds an element pre.frontmatter                  *)
(*   pre      the frontmatter text, as the YAML document it spells:        *)
(*            kind "map" with the key/value pairs in declaration order,    *)
(*            kind "sequence" with the items and kind "string" (a lone     *)
(*            string scalar) with the characters, each paired with its     *)
(*            index as JavaScript keeps it, kind "number" (a lone number), *)
(*            kind "empty" (no text) or kind "malformed" (no YAML          *)
(*            document)                                                    *)
(*   hasH1    whether it holds an h1                                       *)
(*   h1       the text content of the first h1                             *)
(*   title    the text of the <title> element                              *)
(*   afterH1  the siblings that follow the h1, in document order           *)
(*   dataBar  "none", "visible" or "hidden": the element div.data-bar      *)
(***************************************************************************)
Yaml(kind, pairs) == [kind |-> kind, pairs |-> pairs]

YamlSequence(items) ==
    Yaml("sequence", [n \in 1..Len(items) |-> <<NatToStr(n - 1), items[n]>>])

YamlString(str) ==
    Yaml("string", [n \in 1..Len(str) |-> <<NatToStr(n - 1), JStr(<<str[n]>>)>>])

\* yaml.load(text) of js-yaml: throws on text that is no YAML document and
\* on a mapping that declares a key twice
YamlLoadThrows(text) ==
    \/ text.kind = "malformed"
    \/ text.kind = "map" /\ HasDuplicateKeys(text.pairs)

\* Object.entries(parsed ?? {}) of what yaml.load returned: the own
\* properties of a mapping, the items of a sequence or the characters of a
\* string under their indices, nothing for undefined and for a number
ObjectEntries(parsed) ==
    IF parsed.kind \in {"map", "sequence", "string"}
    THEN OwnProperties(parsed.pairs)
    ELSE <<>>

\* parseFrontmatter without the try/catch around yaml.load
parseFrontmatter_NoCatch(pre) ==
    IF YamlLoadThrows(pre)
    THEN [entries |-> <<>>, logged |-> FALSE, threw |-> TRUE]
    ELSE [entries |-> ObjectEntries(pre), logged |-> FALSE, threw |-> FALSE]

\* parseFrontmatter(pre): the entries, and whether an error was logged.
\* threw tells whether the error leaves the function: it is caught.
parseFrontmatter(pre) ==
    IF YamlLoadThrows(pre)
    THEN [entries |-> <<>>, logged |-> TRUE, threw |-> FALSE]
    ELSE [entries |-> ObjectEntries(pre), logged |-> FALSE, threw |-> FALSE]

KeyID == <<"I", "D">>
KeyTitle == <<"t", "i", "t", "l", "e">>
KeyTitleCap == <<"T", "i", "t", "l", "e">>
KeyTitel == <<"T", "i", "t", "e", "l">>

\* IsSkipped as `if (!value) continue`
IsSkipped_Falsy(value) == ~Truthy(value)

\* value === undefined || value === null || value === ''
IsSkipped(value) ==
    \/ value.t \in {"undef", "null"}
    \/ value.t = "str" /\ value.v = <<>>

\* IsTitleKey without the German spelling
IsTitleKey_NoTitel(key) == key = KeyTitle \/ key = KeyTitleCap

\* key === 'title' || key === 'Title' || key === 'Titel'
IsTitleKey(key) == key = KeyTitle \/ key = KeyTitleCap \/ key = KeyTitel

Row(key, cell) == [key |-> key, cell |-> cell]

Table(rows) == [node |-> "table", rows |-> rows]

\* ForEachProperty that sets the heading and the title on the first title
\* entry only
RECURSIVE FirstTitleLoop(_, _, _, _)
FirstTitleLoop(properties, acc, linkTargets, assigned) ==
    IF properties = <<>> \/ acc.threw THEN acc
    ELSE LET key == Head(properties)[1]
             value == Head(properties)[2]
             assign == ~IsSkipped(value) /\ IsTitleKey(key) /\ ~assigned
             cell == createHtmlElement(key, value, linkTargets)
             next ==
                 IF IsSkipped(value) THEN acc
                 ELSE IF (assign /\ String(value) = TypeError) \/ cell.node = "TypeError"
                 THEN [acc EXCEPT !.threw = TRUE]
                 ELSE [h1 |-> IF assign THEN String(value) ELSE acc.h1,
                       title |-> IF assign THEN String(value) ELSE acc.title,
                       rows |-> Append(acc.rows, Row(key, cell)),
                       threw |-> FALSE]
         IN FirstTitleLoop(Tail(properties), next, linkTargets, assigned \/ assign)

ForEachProperty_FirstTitle(properties, acc, linkTargets) ==
    FirstTitleLoop(properties, acc, linkTargets, FALSE)

\* the for loop over the properties: acc holds the heading text, the title
\* and the rows appended so far, and whether an iteration threw.  The
\* conversion of a title value to a string (lines 176, 177) and the
\* rendering of the value (line 187) can throw; the loop ends there.
RECURSIVE ForEachProperty(_, _, _)
ForEachProperty(properties, acc, linkTargets) ==
    IF properties = <<>> \/ acc.threw THEN acc
    ELSE LET key == Head(properties)[1]
             value == Head(properties)[2]
             cell == createHtmlElement(key, value, linkTargets)
             next ==
                 IF IsSkipped(value) THEN acc
                 ELSE IF (IsTitleKey(key) /\ String(value) = TypeError) \/ cell.node = "TypeError"
                 THEN [acc EXCEPT !.threw = TRUE]
                 ELSE [h1 |-> IF IsTitleKey(key) THEN String(value) ELSE acc.h1,
                       title |-> IF IsTitleKey(key) THEN String(value) ELSE acc.title,
                       rows |-> Append(acc.rows, Row(key, cell)),
                       threw |-> FALSE]
         IN ForEachProperty(Tail(properties), next, linkTargets)

\* Skipped with the write-back moved before the early return
Skipped_WriteBack(page, logged, threw) ==
    [page |-> page, written |-> TRUE, logged |-> logged, threw |-> threw]

\* the call ends before writeFileSync, by a return or, when threw, by an
\* error that leaves it
Skipped(page, logged, threw) ==
    [page |-> page, written |-> FALSE, logged |-> logged, threw |-> threw]

\* addPropertiesTable(file, linkTargets), on the document read from file:
\* the document when the call ends, whether it was written back, whether
\* an error was logged, and whether an error left the call
addPropertiesTable(file, page, linkTargets) ==
    IF ~page.hasPre THEN Skipped(page, FALSE, FALSE)
    ELSE LET parsed == parseFrontmatter(page.pre)
             properties == <<<<KeyID, JStr(basename(file, DotHtml))>>>> \o parsed.entries
             acc == ForEachProperty(properties,
                                    [h1 |-> page.h1, title |-> page.title, rows |-> <<>>,
                                     threw |-> FALSE],
                                    linkTargets)
         IN IF parsed.threw \/ Len(parsed.entries) = 0 \/ ~page.hasH1
            THEN Skipped(page, parsed.logged, parsed.threw)
            ELSE IF acc.threw THEN Skipped(page, FALSE, TRUE)
            ELSE [page |-> [page EXCEPT !.h1 = acc.h1,
                                        !.title = acc.title,
                                        !.afterH1 = <<Table(acc.rows)>> \o @,
                                        !.dataBar = IF @ = "none" THEN "none" ELSE "hidden"],
                  written |-> TRUE,
                  logged |-> parsed.logged,
                  threw |-> FALSE]

\* The document a later call reads from a file this call wrote:
\* dom.serialize() and the parse of its text.  The text of two text nodes
\* that stand side by side is one run of characters, which parses as one
\* text node, and an empty text node leaves no trace; elements come back
\* as they were.  (The strings of the pages hold no carriage return, which
\* a parser would turn into a line feed.)
RECURSIVE MergeText(_)
MergeText(nodes) ==
    IF nodes = <<>> THEN <<>>
    ELSE LET rest == MergeText(Tail(nodes))
             h == Head(nodes)
         IN IF h.node = "text" /\ h.data = <<>> THEN rest
            ELSE IF h.node = "text" /\ rest # <<>> /\ Head(rest).node = "text"
            THEN <<TextNode(h.data \o Head(rest).data)>> \o Tail(rest)
            ELSE <<h>> \o rest

RECURSIVE ReparseNode(_)
ReparseNode(frag) ==
    IF frag.node = "div"
    THEN [frag EXCEPT !.children =
             MergeText([n \in 1..Len(frag.children) |-> ReparseNode(frag.children[n])])]
    ELSE IF frag.node = "table"
    THEN [frag EXCEPT !.rows =
             [n \in 1..Len(frag.rows) |-> [frag.rows[n] EXCEPT !.cell = ReparseNode(@)]]]
    ELSE frag

Reparse(page) ==
    [page EXCEPT !.afterH1 = [n \in 1..Len(page.afterH1) |-> ReparseNode(page.afterH1[n])]]

(***************************************************************************)
(* The state of a run.                                                     *)
(*   env          what the process is started on: whether a folder         *)
(*                argument is given, whether it exists and is a directory, *)
(*                and site-lib/metadata.json                               *)
(*   fs, fs0      the files under the folder, in the order the directory   *)
(*                walk meets them, now and before the first run; a file is *)
(*                found under its name as the directory holds it, code     *)
(*                point by code point; an entry that is a link to nothing  *)
(*                is dangling                                              *)
(*   pc           "main", "loop", "done" (exit 0) or "aborted" (exit 1,    *)
(*                by abort() or by an exception nobody catches)            *)
(*   linkTargets, htmlFiles, i   the locals of main and its loop index     *)
(*   writes       the files written so far (indices into fs)               *)
(*   stdout, stderr   the lines printed so far                             *)
(*   runs         the number of runs started                               *)
(*   arg, out     the argument and the result of a single function call    *)
(***************************************************************************)
VARIABLES env, fs, fs0, pc, linkTargets, htmlFiles, i, writes, stdout, stderr, runs, arg, out

vars == <<env, fs, fs0, pc, linkTargets, htmlFiles, i, writes, stdout, stderr, runs, arg, out>>

Folder == <<"/", "v">>

\* getAllHtmlFiles(dir): the paths of the entries whose name ends in .html,
\* in the order of the walk, each path in normalization form C.  A name
\* may hold "/": the entries of a subdirectory stand where the walk meets
\* them.
RECURSIVE getAllHtmlFiles(_, _, _)
getAllHtmlFiles(dir, entries, from) ==
    IF from > Len(entries) THEN <<>>
    ELSE (IF EndsWith(entries[from].name, DotHtml)
          THEN <<normalizeNFC(join(dir, entries[from].name))>>
          ELSE <<>>)
         \o getAllHtmlFiles(dir, entries, from + 1)

\* fs.statSync(filePath) throws for an entry of the walk: a link whose
\* target does not exist
StatThrows(entries) == \E k \in 1..Len(entries) : entries[k].dangling

\* the files that file names: the entries of the folder with that path
FilesAt(entries, file) ==
    { k \in 1..Len(entries) :
        ~entries[k].dangling /\ join(Folder, entries[k].name) = file }

\* the message of the error fs.statSync and fs.readFileSync throw for a
\* path that names no file
Enoent == "Error: ENOENT: no such file or directory"

\* AbortMessage without the catch around the parse of metadata.json
AbortMessage_NoParseCheck(e) ==
    IF ~e.folderGiven THEN "No folder parameter provided."
    ELSE IF ~e.folderExists THEN "Folder does not exist."
    ELSE IF ~e.isDirectory THEN "Parameter is not a folder."
    ELSE IF ~e.metadata.exists THEN "site-lib/metadata.json not found."
    ELSE ""

\* the conditions of main and getLinkTargets that end in abort(...)
AbortMessage(e) ==
    IF ~e.folderGiven THEN "No folder parameter provided."
    ELSE IF ~e.folderExists THEN "Folder does not exist."
    ELSE IF ~e.isDirectory THEN "Parameter is not a folder."
    ELSE IF ~e.metadata.exists THEN "site-lib/metadata.json not found."
    ELSE IF ~e.metadata.parsable THEN "Could not parse metadata.json"
    ELSE ""

\* main, when one of the checks before the loop fails
Abort ==
    /\ pc = "main"
    /\ AbortMessage(env) # ""
    /\ stderr' = Append(stderr, AbortMessage(env))
    /\ pc' = "aborted"
    /\ UNCHANGED <<env, fs, fs0, linkTargets, htmlFiles, i, writes, stdout, runs, arg, out>>

\* main, up to the loop.  fs.statSync in getAllHtmlFiles throws on a
\* dangling link; nothing catches that error and the process ends with
\* status 1 before any page is processed.
Setup ==
    /\ pc = "main"
    /\ AbortMessage(env) = ""
    /\ linkTargets' = getLinkTargets(Folder, env.metadata)
    /\ IF StatThrows(fs)
       THEN /\ stderr' = Append(stderr, Enoent)
            /\ pc' = "aborted"
            /\ UNCHANGED <<htmlFiles, i>>
       ELSE /\ htmlFiles' = getAllHtmlFiles(Folder, fs, 1)
            /\ i' = 1
            /\ pc' = "loop"
            /\ UNCHANGED stderr
    /\ UNCHANGED <<env, fs, fs0, writes, stdout, runs, arg, out>>

\* one iteration of the loop of main: the line on stdout, then
\* addPropertiesTable, whose readFileSync throws when the path names no
\* file and whose rendering can throw a TypeError; nothing catches these
\* errors and the process ends with status 1
ProcessFile ==
    /\ pc = "loop"
    /\ i <= Len(htmlFiles)
    /\ LET file == htmlFiles[i]
       IN /\ stdout' = Append(stdout, file)
          /\ IF FilesAt(fs, file) = {}
             THEN /\ stderr' = Append(stderr, Enoent)
                  /\ pc' = "aborted"
                  /\ UNCHANGED <<fs, writes>>
             ELSE LET index == CHOOSE k \in FilesAt(fs, file) : TRUE
                      r == addPropertiesTable(file, fs[index].page, linkTargets)
                  IN /\ stderr' = IF r.logged THEN Append(stderr, "YAML parse error:")
                                  ELSE IF r.threw THEN Append(stderr, TypeError[1])
                                  ELSE stderr
                     /\ fs' = IF r.written THEN [fs EXCEPT ![index].page = Reparse(r.page)]
                              ELSE fs
                     /\ writes' = IF r.written THEN Append(writes, index) ELSE writes
                     /\ pc' = IF r.threw THEN "aborted" ELSE "loop"
    /\ i' = i + 1
    /\ UNCHANGED <<env, fs0, linkTargets, htmlFiles, runs, arg, out>>

\* the loop is over: main returns
Finish ==
    /\ pc = "loop"
    /\ i > Len(htmlFiles)
    /\ pc' = "done"
    /\ UNCHANGED <<env, fs, fs0, linkTargets, htmlFiles, i, writes, stdout, stderr, runs, arg, out>>

\* the script is started again on the folder it has processed
RunAgain ==
    /\ pc = "done"
    /\ runs < MaxRuns
    /\ runs' = runs + 1
    /\ pc' = "main"
    /\ UNCHANGED <<env, fs, fs0, linkTargets, htmlFiles, i, writes, stdout, stderr, arg, out>>

(***************************************************************************)
(* Inputs.                                                                 *)
(***************************************************************************)
StrA == <<"a">>
StrHello == <<"H", "e", "l", "l", "o">>
StrWorld == <<"W", "o", "r", "l", "d">>
StrOld == <<"O", "l", "d">>
StrSite == <<"S", "i", "t", "e">>
StrAHtml == <<"a", ".", "h", "t", "m", "l">>
StrWikiA == <<"[", "[", "a", "]", "]">>
KeyTags == <<"t", "a", "g", "s">>
KeyAuthor == <<"a", "u", "t", "h", "o", "r">>
Paragraph == [node |-> "p"]

Page(hasPre, pre, hasH1, afterH1, dataBar) ==
    [hasPre |-> hasPre, pre |-> pre, hasH1 |-> hasH1,
     h1 |-> IF hasH1 THEN StrOld ELSE <<>>, title |-> StrSite,
     afterH1 |-> afterH1, dataBar |-> dataBar]

Metadata(exists, parsable, sourceToTarget) ==
    [exists |-> exists, parsable |-> parsable, sourceToTarget |-> sourceToTarget]

Env(folderGiven, folderExists, isDirectory, metadata) ==
    [folderGiven |-> folderGiven, folderExists |-> folderExists,
     isDirectory |-> isDirectory, metadata |-> metadata]

SourceA == <<<<"a", ".", "m", "d">>, JStr(StrAHtml)>>

GoodMetadata == Metadata(TRUE, TRUE, <<SourceA>>)

Envs ==
    { Env(FALSE, FALSE, FALSE, GoodMetadata),
      Env(TRUE, FALSE, FALSE, GoodMetadata),
      Env(TRUE, TRUE, FALSE, GoodMetadata),
      Env(TRUE, TRUE, TRUE, Metadata(FALSE, FALSE, <<>>)),
      Env(TRUE, TRUE, TRUE, Metadata(TRUE, FALSE, <<>>)),
      Env(TRUE, TRUE, TRUE, GoodMetadata) }

TitleHello == <<KeyTitle, JStr(StrHello)>>

\* the value of the YAML mapping {toString: a}
OwnsToString == JObject(<<<<NameToString, JStr(StrA)>>>>)

SamplePages ==
    { Page(FALSE, Yaml("empty", <<>>), TRUE, <<Paragraph>>, "visible"),
      Page(TRUE, Yaml("malformed", <<>>), TRUE, <<Paragraph>>, "none"),
      Page(TRUE, Yaml("empty", <<>>), TRUE, <<Paragraph>>, "none"),
      Page(TRUE, Yaml("map", <<>>), TRUE, <<>>, "visible"),
      Page(TRUE, Yaml("number", <<>>), TRUE, <<>>, "visible"),
      Page(TRUE, YamlString(StrHello), TRUE, <<Paragraph>>, "none"),
      Page(TRUE, YamlSequence(<<JStr(StrA), JNull>>), TRUE, <<>>, "none"),
      Page(TRUE, Yaml("map", <<TitleHello, <<KeyTitle, JStr(StrWorld)>>>>), TRUE, <<>>, "none"),
      Page(TRUE, Yaml("map", <<TitleHello, <<KeyTags, JArr(<<JStr(StrA)>>)>>>>), FALSE, <<>>, "none"),
      Page(TRUE, Yaml("map", <<TitleHello>>), TRUE, <<Paragraph>>, "visible"),
      Page(TRUE, Yaml("map", <<<<KeyAuthor, JStr(StrWikiA)>>>>), TRUE, <<>>, "none"),
      Page(TRUE, Yaml("map", <<<<KeyAuthor, JArr(<<JStr(StrA), JNum(0)>>)>>>>), TRUE, <<>>, "none"),
      Page(TRUE, Yaml("map", <<<<KeyAuthor, OwnsToString>>>>), TRUE, <<Paragraph>>, "none") }

\* a.html, d/a.html, and the name of one more page in its decomposed form
\* (a, combining acute accent) and in its precomposed form
StrDecomposedHtml == <<"a", CombiningAcute>> \o DotHtml
StrComposedHtml == <<"U+00E1">> \o DotHtml

HtmlNames == { StrAHtml, <<"d", "/">> \o StrAHtml, StrDecomposedHtml, StrComposedHtml }

\* the pages the names other than a.html are tried with: one whose
\* frontmatter fails to decode, one that qualifies, one whose rendering
\* throws
OtherPages ==
    { Page(TRUE, Yaml("malformed", <<>>), TRUE, <<Paragraph>>, "none"),
      Page(TRUE, Yaml("map", <<TitleHello>>), TRUE, <<Paragraph>>, "visible"),
      Page(TRUE, Yaml("map", <<<<KeyAuthor, OwnsToString>>>>), TRUE, <<Paragraph>>, "none") }

\* the pages, a file that is no page, and a link to nothing
DirEntries ==
    { [name |-> StrAHtml, page |-> p, dangling |-> FALSE] : p \in SamplePages }
        \cup { [name |-> n, page |-> p, dangling |-> FALSE] :
                  n \in HtmlNames \ {StrAHtml}, p \in OtherPages }
        \cup { [name |-> <<"n", ".", "m", "d">>,
                page |-> Page(TRUE, Yaml("map", <<TitleHello>>), TRUE, <<>>, "none"),
                dangling |-> FALSE],
               [name |-> <<"l">>,
                page |-> Page(FALSE, Yaml("empty", <<>>), FALSE, <<>>, "none"),
                dangling |-> TRUE] }

Listings ==
    UNION { { s \in [1..n -> DirEntries] :
                \A a, b \in 1..n : a # b => s[a].name # s[b].name } : n \in 1..MaxFiles }

NoCall == [fn |-> "none"]

Init ==
    /\ env \in Envs
    /\ fs \in Listings
    /\ fs0 = fs
    /\ pc = "main"
    /\ linkTargets = EmptyObject
    /\ htmlFiles = <<>>
    /\ i = 1
    /\ writes = <<>>
    /\ stdout = <<>>
    /\ stderr = <<>>
    /\ runs = 1
    /\ arg = NoCall
    /\ out = NoCall

Next == Abort \/ Setup \/ ProcessFile \/ Finish \/ RunAgain

Spec == Init /\ [][Next]_vars

(***************************************************************************)
(* One call of addPropertiesTable, on a page whose frontmatter is any      *)
(* sequence of up to MaxEntries pairs over PageKeys and PageValues.        *)
(***************************************************************************)
KeyTitleUpper == <<"T", "I", "T", "L", "E">>

KeyTimestamp == <<"1", "0", "0", "0", "0", "0", "0", "0", "0", "0">>

PageKeys ==
    { KeyTitle, KeyTitleCap, KeyTitel, KeyTitleUpper, KeyTags, KeyAuthor, <<"1">>, KeyTimestamp }

PageValues ==
    { JStr(<<>>), JNull, JUndef, JStr(StrHello), JStr(StrWorld), JNum(0),
      JArr(<<JStr(StrA), JNum(0)>>), OwnsToString }

PagePairs == { <<k, v>> : k \in PageKeys, v \in PageValues }

PageFrontmatters == UNION { [1..n -> PagePairs] : n \in 0..MaxEntries }

PageFiles == { join(Folder, StrAHtml), join(Folder, DotHtml) }

InitPage ==
    /\ env = Env(TRUE, TRUE, TRUE, GoodMetadata)
    /\ fs = <<>>
    /\ fs0 = <<>>
    /\ pc = "call"
    /\ linkTargets = getLinkTargets(Folder, env.metadata)
    /\ htmlFiles = <<>>
    /\ i = 1
    /\ writes = <<>>
    /\ stdout = <<>>
    /\ stderr = <<>>
    /\ runs = 1
    /\ \E f \in PageFiles, fm \in PageFrontmatters :
          arg = [fn |-> "addPropertiesTable", file |-> f,
                 page |-> Page(TRUE, Yaml("map", fm), TRUE, <<Paragraph>>, "visible")]
    /\ out = NoCall

CallAddPropertiesTable ==
    /\ pc = "call"
    /\ arg.fn = "addPropertiesTable"
    /\ out' = addPropertiesTable(arg.file, arg.page, linkTargets)
    /\ pc' = "return"
    /\ UNCHANGED <<env, fs, fs0, linkTargets, htmlFiles, i, writes, stdout, stderr, runs, arg>>

NextPage == CallAddPropertiesTable

SpecPage == InitPage /\ [][NextPage]_vars

(***************************************************************************)
(* One call of createHtmlElement, on any key of RenderKeys, any value of   *)
(* RenderValues and the link targets of any index of RenderMetadatas.      *)
(***************************************************************************)
StrHttps == HttpsPrefix \o <<"x">>
StrHttp == HttpPrefix \o <<"x">>
Wiki(name) == <<"[", "[">> \o name \o <<"]", "]">>

RenderKeys == { KeyTags, <<"T", "a", "g", "s">>, KeyAuthor }

RenderStrings ==
    { <<>>, StrA, StrHttps, StrHttp, <<"H", "T", "T", "P", ":", "/", "/", "x">>,
      <<"x">> \o StrHttps, Wiki(StrA), Wiki(<<"b">>), Wiki(<<"z">>), Wiki(NameConstructor),
      Wiki(<<"v", "a", "l", "u", "e", "O", "f">>), Wiki(NameProto), Wiki(<<"v">>), Wiki(<<"a", LineSeparator>>),
      Wiki(NameLength), Wiki(<<"0">>), Wiki(<<"1">>), Wiki(<<"p", "u", "s", "h">>),
      Wiki(<<>>), <<"[", "[", "a", "]">>, <<"x">> \o Wiki(StrA), Wiki(<<"a", "\n">>) }

RenderScalars ==
    { JStr(str) : str \in RenderStrings }
        \cup { JNum(0), JNum(42), JBool(TRUE), JNull, JObj, OwnsToString }

RenderItems ==
    { JStr(StrA), JStr(StrHttps), JStr(Wiki(StrA)), JNum(42), JNull, JArr(<<JStr(StrA)>>),
      OwnsToString }

RenderValues ==
    RenderScalars \cup { JArr(items) : items \in UNION { [1..n -> RenderItems] : n \in 0..MaxItems } }

SourceB == <<<<"b">>, JStr(<<>>)>>
SourceDA == <<<<"d", "/", "a", ".", "m", "d">>, JStr(<<"d", "/">> \o StrAHtml)>>

SourceFolder == <<<<>>, JStr(<<"e", ".", "h", "t", "m", "l">>)>>
SourceDots == <<<<".", "/", "d", "/", ".", ".", "/", "b", ".", "m", "d">>, JStr(StrAHtml)>>
SourceProto == <<NameProto, JStr(StrAHtml)>>
SourceProtoNull == <<NameProto, JNull>>
SourceProtoArray == <<NameProto, JArr(<<JStr(<<"x">>)>>)>>
SourceProtoObject == <<NameProto, JObject(<<<<<<"z">>, JStr(<<"z">> \o DotHtml)>>>>)>>
SourceB2 == <<<<"b", ".", "m", "d">>, OwnsToString>>
SourceProtoOwner ==
    <<<<"d", "/">> \o NameProto, JObject(<<<<NameProto, JStr(<<"z">> \o DotHtml)>>>>)>>

RenderMetadatas ==
    { Metadata(TRUE, TRUE, <<>>),
      Metadata(TRUE, TRUE, <<SourceA, SourceB>>),
      Metadata(TRUE, TRUE, <<SourceA, SourceDA>>),
      Metadata(TRUE, TRUE, <<SourceFolder, SourceDots>>),
      Metadata(TRUE, TRUE, <<SourceA, SourceProto>>),
      Metadata(TRUE, TRUE, <<SourceA, SourceProtoNull>>),
      Metadata(TRUE, TRUE, <<SourceProtoArray, SourceA>>),
      Metadata(TRUE, TRUE, <<SourceProtoObject, SourceA>>),
      Metadata(TRUE, TRUE, <<SourceProtoOwner, SourceProto>>),
      Metadata(TRUE, TRUE, <<SourceA, SourceB2>>) }

InitRender ==
    /\ env \in { Env(TRUE, TRUE, TRUE, m) : m \in RenderMetadatas }
    /\ fs = <<>>
    /\ fs0 = <<>>
    /\ pc = "call"
    /\ linkTargets = getLinkTargets(Folder, env.metadata)
    /\ htmlFiles = <<>>
    /\ i = 1
    /\ writes = <<>>
    /\ stdout = <<>>
    /\ stderr = <<>>
    /\ runs = 1
    /\ \E k \in RenderKeys, v \in RenderValues :
          arg = [fn |-> "createHtmlElement", key |-> k, val |-> v]
    /\ out = NoCall

CallCreateHtmlElement ==
    /\ pc = "call"
    /\ arg.fn = "createHtmlElement"
    /\ out' = createHtmlElement(arg.key, arg.val, linkTargets)
    /\ pc' = "return"
    /\ UNCHANGED <<env, fs, fs0, linkTargets, htmlFiles, i, writes, stdout, stderr, runs, arg>>

NextRender == CallCreateHtmlElement

SpecRender == InitRender /\ [][NextRender]_vars

(***************************************************************************)
(* Properties of a run (specification Spec).                               *)
(***************************************************************************)
HtmlIndexes == { k \in 1..Len(fs0) : EndsWith(fs0[k].name, DotHtml) }

\* the frontmatter text gives no entry: it is no YAML document, it declares
\* a key twice, it is empty or a number, or it is a mapping, a sequence or a
\* string with nothing in it
DecodesToNoEntries(pre) ==
    \/ pre.kind \in {"malformed", "empty", "number"}
    \/ pre.pairs = <<>>
    \/ pre.kind = "map" /\ \E a, b \in 1..Len(pre.pairs) : a # b /\ pre.pairs[a][1] = pre.pairs[b][1]

DecodeFails(pre) ==
    \/ pre.kind = "malformed"
    \/ pre.kind = "map" /\ \E a, b \in 1..Len(pre.pairs) : a # b /\ pre.pairs[a][1] = pre.pairs[b][1]

Qualifies(page) == page.hasPre /\ ~DecodesToNoEntries(page.pre) /\ page.hasH1

TimesWritten(k) == Cardinality({ w \in 1..Len(writes) : writes[w] = k })

\* the path of the file at index k
PathOf(k) == join(Folder, fs0[k].name)

\* the paths the walk yields, in discovery order
Discovered == getAllHtmlFiles(Folder, fs0, 1)

\* how many times the file at index k has been processed so far: the
\* lines on stdout that name it
Processed(k) == Cardinality({ n \in 1..Len(stdout) : stdout[n] = PathOf(k) })

\* how many of the discovered paths name the file at index k
Hits(k) == Cardinality({ n \in 1..Len(Discovered) : Discovered[n] = PathOf(k) })

\* the path names no file of the folder
NamesNoFile(file) == \A k \in 1..Len(fs0) : PathOf(k) # file

RECURSIVE Repeat(_, _)
Repeat(seq, n) == IF n = 0 THEN <<>> ELSE seq \o Repeat(seq, n - 1)

YamlErrors == Cardinality({ n \in 1..Len(stderr) : stderr[n] = "YAML parse error:" })

FatalSetup ==
    \/ ~env.folderGiven
    \/ ~env.folderExists
    \/ ~env.isDirectory
    \/ ~env.metadata.exists
    \/ ~env.metadata.parsable

\* C1: a page without a frontmatter block, or whose frontmatter gives no
\* entry (a decode failure included), or without an h1, is never written:
\* at every point of every run its content is its content before the run.
C1_SkippedPageNeverWritten ==
    \A k \in 1..Len(fs0) :
        (~fs0[k].page.hasPre \/ DecodesToNoEntries(fs0[k].page.pre) \/ ~fs0[k].page.hasH1)
            => fs[k] = fs0[k] /\ TimesWritten(k) = 0

\* a finished run that wrote some page and that processed, without writing
\* it, a page that meets one of the three conditions
C1_Witness ==
    /\ pc = "done"
    /\ writes # <<>>
    /\ \E k \in HtmlIndexes :
          /\ Processed(k) >= 1
          /\ TimesWritten(k) = 0
          /\ (~fs0[k].page.hasPre \/ ~fs0[k].page.hasH1 \/ DecodesToNoEntries(fs0[k].page.pre))

\* C2: under a fatal setup condition the run ends aborted (exit status 1)
\* with one message, and never reaches the loop: no page was read, logged,
\* mutated or written.
C2_FatalSetupAbortsBeforeAnyPage ==
    FatalSetup =>
        /\ pc \in {"main", "aborted"}
        /\ pc = "aborted" => Len(stderr) = 1 /\ stderr[1] = AbortMessage(env)
        /\ fs = fs0
        /\ writes = <<>>
        /\ stdout = <<>>
        /\ htmlFiles = <<>>

\* a run aborted because metadata.json could not be parsed, in a folder
\* that holds a page the loop would have mutated
C2_Witness ==
    /\ pc = "aborted"
    /\ env.metadata.exists
    /\ ~env.metadata.parsable
    /\ \E k \in HtmlIndexes : Qualifies(fs0[k].page)

\* the loop is about to process a path that names a page whose frontmatter
\* fails to decode
AtFailingPage ==
    /\ pc = "loop"
    /\ i <= Len(htmlFiles)
    /\ \E k \in FilesAt(fs, htmlFiles[i]) :
          fs[k].page.hasPre /\ DecodeFails(fs[k].page.pre)

\* the step logs the path and the error and goes on to the next path; it
\* changes no file and nothing else the later iterations read
FailureIsLoggedAndSkipped ==
    AtFailingPage =>
        /\ pc' = "loop"
        /\ i' = i + 1
        /\ stdout' = Append(stdout, htmlFiles[i])
        /\ stderr' = Append(stderr, "YAML parse error:")
        /\ UNCHANGED <<fs, writes, linkTargets, htmlFiles, env, runs>>

\* what holds of the pages around the failing ones
OtherPagesAreProcessed ==
    ~FatalSetup =>
        /\ pc \in {"loop", "done"} =>
              stdout = Repeat(Discovered, runs - 1) \o SubSeq(Discovered, 1, i - 1)
        /\ YamlErrors = Cardinality({ n \in 1..Len(stdout) :
                            \E k \in HtmlIndexes :
                                /\ stdout[n] = PathOf(k)
                                /\ fs0[k].page.hasPre
                                /\ DecodeFails(fs0[k].page.pre) })
        /\ \A k \in HtmlIndexes :
              fs0[k].page.hasPre /\ DecodeFails(fs0[k].page.pre) => fs[k] = fs0[k]
        /\ pc = "done" =>
              \A k \in HtmlIndexes :
                  /\ Processed(k) = runs * Hits(k)
                  /\ Qualifies(fs0[k].page) =>
                        /\ TimesWritten(k) = Processed(k)
                        /\ Len(fs[k].page.afterH1) = Processed(k) + Len(fs0[k].page.afterH1)

\* C3: a decode failure is local to its page.  The iteration that meets it
\* prints the progress line and one error line, writes nothing, changes
\* nothing that a later iteration reads, and goes on with the next path:
\* the run does not abort for it.  The paths are processed in discovery
\* order whatever pages came before; a failing page is never changed; and
\* when the run is done every path was processed once per run, and every
\* qualifying page was written, with one more table, each time it was
\* processed.
C3_DecodeFailureIsLocal ==
    /\ []OtherPagesAreProcessed
    /\ [][FailureIsLoggedAndSkipped]_vars

\* a finished run in which a page whose frontmatter fails to decode comes
\* before a page that was mutated and written
C3_Witness ==
    /\ pc = "done"
    /\ \E j, k \in HtmlIndexes :
          /\ j < k
          /\ fs0[j].page.hasPre
          /\ DecodeFails(fs0[j].page.pre)
          /\ TimesWritten(k) >= 1
          /\ fs[k] # fs0[k]

\* C9: the tool is not idempotent.  After k finished runs a qualifying page
\* still holds its frontmatter block and its h1, was written k times, and
\* holds k tables right after the h1, followed by what followed the h1
\* before the first run.
C9_EveryRunInsertsATable ==
    pc = "done" =>
        \A k \in HtmlIndexes :
            Qualifies(fs0[k].page) =>
                LET page == fs[k].page
                IN /\ page.hasPre
                   /\ page.pre = fs0[k].page.pre
                   /\ page.hasH1
                   /\ TimesWritten(k) = runs
                   /\ Len(page.afterH1) = runs + Len(fs0[k].page.afterH1)
                   /\ \A t \in 1..runs : page.afterH1[t].node = "table"
                   /\ SubSeq(page.afterH1, runs + 1, Len(page.afterH1)) = fs0[k].page.afterH1

(***************************************************************************)
(* Properties of one call of addPropertiesTable (specification SpecPage).  *)
(***************************************************************************)
Uppers == <<"A", "B", "C", "D", "E", "F", "G", "H", "I", "J", "K", "L", "M",
            "N", "O", "P", "Q", "R", "S", "T", "U", "V", "W", "X", "Y", "Z">>
Lowers == <<"a", "b", "c", "d", "e", "f", "g", "h", "i", "j", "k", "l", "m",
            "n", "o", "p", "q", "r", "s", "t", "u", "v", "w", "x", "y", "z">>

ToLowerCase(str) ==
    [n \in 1..Len(str) |->
        IF \E u \in 1..26 : Uppers[u] = str[n]
        THEN Lowers[CHOOSE u \in 1..26 : Uppers[u] = str[n]]
        ELSE str[n]]

NonEmpty(value) == ~(value.t \in {"null", "undef"}) /\ ~(value.t = "str" /\ value.v = <<>>)

Mutated == pc = "return" /\ arg.fn = "addPropertiesTable" /\ out.written

\* the entries the frontmatter block declares, in declaration order
Declared == arg.page.pre.pairs

\* the rows of the table the call inserted
NewRows == Head(out.page.afterH1).rows

\* the declared entries with a non-empty value and one of the spellings
\* title, Title, Titel as key
TitleEntries ==
    { k \in 1..Len(Declared) :
        /\ Declared[k][1] \in {KeyTitle, KeyTitleCap, KeyTitel}
        /\ NonEmpty(Declared[k][2]) }

\* the same, with the key compared without regard to case
TitleEntriesAnyCase ==
    { k \in 1..Len(Declared) :
        /\ ToLowerCase(Declared[k][1]) \in {ToLowerCase(KeyTitle), ToLowerCase(KeyTitel)}
        /\ NonEmpty(Declared[k][2]) }

\* C4 as stated: in a mutated page that declares an entry with a non-empty
\* value whose key is title, Title or Titel in any letter case, the heading
\* text and the browser title are the value of such an entry.
C4_TitleKeyAnyCaseOverwrites ==
    Mutated /\ TitleEntriesAnyCase # {} =>
        \E k \in TitleEntriesAnyCase :
            /\ out.page.h1 = String(Declared[k][2])
            /\ out.page.title = String(Declared[k][2])

\* C4 as amended: in a mutated page that declares an entry with a non-empty
\* value whose key is exactly title, Title or Titel, the heading text and
\* the browser title are overwritten with the value of such an entry.
C4_TitleKeyOverwrites ==
    Mutated /\ TitleEntries # {} =>
        \E k \in TitleEntries :
            /\ out.page.h1 = String(Declared[k][2])
            /\ out.page.title = String(Declared[k][2])

\* a mutated page whose only title entry has the key Titel, and whose
\* heading and title changed
C4_Witness ==
    /\ Mutated
    /\ \E k \in TitleEntries : Declared[k][1] = KeyTitel
    /\ \A k \in TitleEntries : Declared[k][1] = KeyTitel
    /\ out.page.h1 # arg.page.h1
    /\ out.page.title # arg.page.title

\* the entries of the page: the synthetic ID entry, then the declared ones
AllEntries == <<<<KeyID, JStr(basename(arg.file, DotHtml))>>>> \o Declared

\* C5: in a mutated page an entry whose value is the empty string, null or
\* undefined has no row, every other entry (the ID entry and the title
\* entries included) has exactly one row, and there are as many rows as
\* entries with a non-empty value.
C5_OneRowPerNonEmptyEntry ==
    Mutated =>
        /\ Len(NewRows) = Cardinality({ k \in 1..Len(AllEntries) : NonEmpty(AllEntries[k][2]) })
        /\ \A k \in 1..Len(AllEntries) :
              Cardinality({ r \in 1..Len(NewRows) : NewRows[r].key = AllEntries[k][1] })
                  = IF NonEmpty(AllEntries[k][2]) THEN 1 ELSE 0

\* a mutated page that declares an entry with an empty value and a title
\* entry with the value 0, and has a row for the ID entry
C5_Witness ==
    /\ Mutated
    /\ \E k \in 1..Len(Declared) : ~NonEmpty(Declared[k][2])
    /\ \E k \in 1..Len(Declared) : Declared[k][1] = KeyTitle /\ Declared[k][2] = JNum(0)
    /\ Len(NewRows) = 2
    /\ NewRows[1].key = KeyID

RECURSIVE KeysOfNonEmpty(_)
KeysOfNonEmpty(pairs) ==
    IF pairs = <<>> THEN <<>>
    ELSE (IF NonEmpty(Head(pairs)[2]) THEN <<Head(pairs)[1]>> ELSE <<>>)
         \o KeysOfNonEmpty(Tail(pairs))

\* C6: in a mutated page the first row is the ID row, whose value is the
\* base name of the file without its extension, and the rows that follow
\* are in the declaration order of the frontmatter entries, whatever the
\* keys are.
C6_RowsInDeclarationOrder ==
    Mutated =>
        /\ NewRows # <<>>
        /\ NewRows[1].key = KeyID
        /\ [r \in 1..Len(NewRows) |-> NewRows[r].key] = <<KeyID>> \o KeysOfNonEmpty(Declared)

\* C10: when entries of a page have a title key and a non-empty value, the
\* heading text and the browser title are equal and are the value of the
\* last of them; when no entry has, both are what they were.
C10_LastTitleEntryWins ==
    Mutated =>
        IF TitleEntries = {}
        THEN out.page.h1 = arg.page.h1 /\ out.page.title = arg.page.title
        ELSE LET last == CHOOSE k \in TitleEntries : \A j \in TitleEntries : j <= k
             IN /\ out.page.h1 = String(Declared[last][2])
                /\ out.page.title = String(Declared[last][2])
                /\ out.page.h1 = out.page.title

\* a mutated page with two title entries of different values
C10_Witness ==
    /\ Mutated
    /\ \E j, k \in TitleEntries :
          /\ j < k
          /\ String(Declared[j][2]) # String(Declared[k][2])
          /\ out.page.h1 = String(Declared[k][2])

(***************************************************************************)
(* Properties of one call of createHtmlElement (specification             *)
(* SpecRender).                                                            *)
(***************************************************************************)
Rendered == pc = "return" /\ arg.fn = "createHtmlElement"

FullyWrapped(str) ==
    Len(str) >= 4 /\ SubSeq(str, 1, 2) = <<"[", "[">> /\ SubSeq(str, Len(str) - 1, Len(str)) = <<"]", "]">>

Unwrapped(str) == SubSeq(str, 3, Len(str) - 2)

\* the first rule of the precedence order that applies to key and val
Rule(key, val) ==
    IF val.t = "arr" THEN 1
    ELSE IF val.t # "str" THEN 2
    ELSE IF key = KeyTags THEN 3
    ELSE IF StartsWith(val.v, HttpPrefix) \/ StartsWith(val.v, HttpsPrefix) THEN 4
    ELSE IF FullyWrapped(val.v) THEN 5
    ELSE 6

\* frag is the fragment the rules give for key and val
RECURSIVE Conforms(_, _, _)
Conforms(key, val, frag) ==
    CASE Rule(key, val) = 1 ->
            /\ frag.node = "div"
            /\ frag.style = "display: flex; flex-wrap: wrap; gap: 0.5em;"
            /\ Len(frag.children) = Len(val.v)
            /\ \A n \in 1..Len(val.v) : Conforms(key, val.v[n], frag.children[n])
      [] Rule(key, val) = 2 ->
            frag = [node |-> "text", data |-> String(val)]
      [] Rule(key, val) = 3 ->
            frag = [node |-> "a", href |-> TagQuery \o val.v, text |-> <<"#">> \o val.v,
                    target |-> "", rel |-> "", class |-> "tag is-unresolved"]
      [] Rule(key, val) = 4 ->
            frag = [node |-> "a", href |-> val.v, text |-> val.v,
                    target |-> "_blank", rel |-> "noopener noreferrer", class |-> ""]
      [] Rule(key, val) = 5 ->
            \/ frag = [node |-> "text", data |-> val.v]
            \/ /\ frag.node = "a"
               /\ frag.text = Unwrapped(val.v)
               /\ frag.target = ""
               /\ frag.class = ""
      [] Rule(key, val) = 6 ->
            frag = [node |-> "text", data |-> val.v]

\* C7: for every key and value createHtmlElement gives the fragment of the
\* first rule that applies, in the order sequence, non-string, key tags,
\* external link, wiki link, plain text.
C7_FirstApplicableRule == Rendered => Conforms(arg.key, arg.val, out)

\* C8: a string fully wrapped in double brackets, not under the key tags
\* and not starting with http(s)://, is rendered as a link to the mapped
\* URL, labelled with the name between the brackets, if that name is a key
\* the index file put in the map, and as the plain text of the value
\* otherwise.
C8_LinkIffNameInMap ==
    Rendered /\ Rule(arg.key, arg.val) = 5 =>
        LET name == Unwrapped(arg.val.v)
        IN IF name \in DOMAIN getLinkTargets(Folder, env.metadata).own
           THEN out = [node |-> "a",
                       href |-> getLinkTargets(Folder, env.metadata).own[name].v,
                       text |-> name, target |-> "", rel |-> "", class |-> ""]
           ELSE out = [node |-> "text", data |-> arg.val.v]

====
